---- MODULE Spec2Model ----
(***************************************************************************)
(* Model of csv_converter.py: the email column detector                    *)
(* (find_email_column), the file converter (convert_file), the directory   *)
(* driver (process_directory) and the command line entry point (main).     *)
(*                                                                         *)
(* Text is a sequence of one-character strings.  A path is a sequence of   *)
(* components, each component being text; <<>> is the working directory.   *)
(***************************************************************************)
EXTENDS Integers, Sequences, FiniteSets, TLC

VARIABLES
    value,          \* SpecPattern: the cell text handed to the pattern
    matched,        \* SpecPattern: "unset", or the result of the search
    df,             \* SpecDetect: the table handed to find_email_column
    email_col,      \* SpecDetect: "unset" marker, or the returned column name
    fs,             \* the file system: path -> node
    args,           \* the arguments of the running call (input, output, flags)
    pc,             \* position of the running program
    todo,           \* process_directory: entries of the listing not yet visited
    success_count,  \* process_directory: the counter
    stdout,         \* lines printed to standard output (by kind)
    stderr,         \* lines printed to the error stream
    calls,          \* history: the convert_file calls made, in order
    exit_code,      \* main: -1 while running, then the process exit status
    escaped         \* main: the message of an exception nobody caught, or ""

vars == <<value, matched, df, email_col, fs, args, pc, todo, success_count,
          stdout, stderr, calls, exit_code, escaped>>

----------------------------------------------------------------------------
(* Bounds *)

MaxLen == 6

MaxCols == 2

MaxRows == 2

----------------------------------------------------------------------------
(* The email pattern, line 29:                                             *)
(*   \b[A-Za-z0-9._%+-]+@[A-Za-z0-9.-]+\.[A-Z|a-z]{2,}\b                   *)

Lowercase ==
    {"a","b","c","d","e","f","g","h","i","j","k","l","m",
     "n","o","p","q","r","s","t","u","v","w","x","y","z"}

Uppercase ==
    {"A","B","C","D","E","F","G","H","I","J","K","L","M",
     "N","O","P","Q","R","S","T","U","V","W","X","Y","Z"}

Digits == {"0","1","2","3","4","5","6","7","8","9"}

\* \w, the class \b is defined by
WordChars == Lowercase \cup Uppercase \cup Digits \cup {"_"}

\* [A-Za-z0-9._%+-]
LocalChars == Uppercase \cup Lowercase \cup Digits \cup {".", "_", "%", "+", "-"}

\* [A-Za-z0-9.-]
DomainChars == Uppercase \cup Lowercase \cup Digits \cup {".", "-"}

\* a tld class without the bar: [A-Za-z]
TldLettersOnly == Uppercase \cup Lowercase

\* [A-Z|a-z]: inside a character class the bar is a literal member
TldChars == Uppercase \cup {"|"} \cup Lowercase

\* \b at the gap after position g of s (g = 0: before the first character)
WordBoundary(s, g) ==
    LET before == g >= 1 /\ s[g] \in WordChars
        after  == g < Len(s) /\ s[g + 1] \in WordChars
    IN  before # after

AllIn(s, lo, hi, class) == \A k \in lo..hi : s[k] \in class

\* re.search with the pattern whose last class is tld: some substring i..j of
\* s has the shape local@domain.tld between two word boundaries
PatternSearch(s, tld) ==
    \E i \in 1..Len(s) : \E at \in (i + 1)..Len(s) :
    \E dot \in (at + 2)..Len(s) : \E j \in (dot + 2)..Len(s) :
        /\ WordBoundary(s, i - 1)
        /\ AllIn(s, i, at - 1, LocalChars)
        /\ s[at] = "@"
        /\ AllIn(s, at + 1, dot - 1, DomainChars)
        /\ s[dot] = "."
        /\ AllIn(s, dot + 1, j, tld)
        /\ WordBoundary(s, j)

email_pattern(s) == PatternSearch(s, TldChars)

----------------------------------------------------------------------------
(* Tables (pandas DataFrames as read_excel returns them)                   *)
(*                                                                         *)
(* A column label is a string or an integer (a header cell holding the     *)
(* number 0 gives the label 0).  A cell is text or NaN (a blank cell).  A  *)
(* column carries the answer pandas gives to is_string_dtype for it.       *)

StrName(s) == [t |-> "str", s |-> s, i |-> 0]

IntName(i) == [t |-> "int", s |-> "", i |-> i]

\* Python's None, as the Optional[str] result of find_email_column
None == [t |-> "none", s |-> "", i |-> 0]

\* bool(x) for a column label or None, as `if email_col:` evaluates it
Truthy(n) ==
    CASE n.t = "none" -> FALSE
      [] n.t = "str"  -> n.s # ""
      [] n.t = "int"  -> n.i # 0

TextCell(s) == [t |-> "str", s |-> s]

NaN == [t |-> "nan", s |-> <<>>]

Column(name, string_dtype, values) ==
    [name |-> name, string_dtype |-> string_dtype, values |-> values]

\* a detector that takes every column for string-typed
is_string_dtype_any(col) == TRUE

\* pd.api.types.is_string_dtype(df[column]), line 32
is_string_dtype(col) == col.string_dtype

\* one element of df[column].str.contains(email_pattern, na=False, regex=True)
str_contains(cell) == IF cell.t = "str" THEN email_pattern(cell.s) ELSE FALSE

\* Series.any() over the element-wise result, line 33
any_contains(col) == \E r \in 1..Len(col.values) : str_contains(col.values[r])

\* the loop of lines 31-35, started at column k
RECURSIVE find_email_column_from(_, _)
find_email_column_from(table, k) ==
    IF k > Len(table) THEN None
    ELSE IF is_string_dtype(table[k]) /\ any_contains(table[k])
         THEN table[k].name
         ELSE find_email_column_from(table, k + 1)

find_email_column(table) == find_email_column_from(table, 1)

\* df[[email_col]], line 66: the columns labelled email_col, in order
SelectColumns(table, name) ==
    SelectSeq(table, LAMBDA col : col.name = name)

----------------------------------------------------------------------------
(* The file system *)

EmptyCsv == [header |-> <<>>, rows |-> <<>>]

Node(kind, content, sheet, csv, writable) ==
    [kind |-> kind, content |-> content, sheet |-> sheet, csv |-> csv,
     writable |-> writable]

Dir(writable) == Node("dir", "none", <<>>, EmptyCsv, writable)

\* a workbook whose first sheet holds the table
SheetFile(table) == Node("file", "sheet", table, EmptyCsv, TRUE)

\* a file with a spreadsheet name that is no workbook
CorruptFile == Node("file", "corrupt", <<>>, EmptyCsv, TRUE)

TextFile == Node("file", "text", <<>>, EmptyCsv, TRUE)

CsvFile(csv, writable) == Node("file", "csv", <<>>, csv, writable)

exists(fsys, path) == path \in DOMAIN fsys

isfile(fsys, path) == path \in DOMAIN fsys /\ fsys[path].kind = "file"

isdir(fsys, path) == path \in DOMAIN fsys /\ fsys[path].kind = "dir"

\* os.path.dirname
Parent(path) == SubSeq(path, 1, Len(path) - 1)

\* os.path.join(dir, filename), lines 104 and 106
join(dir, filename) == Append(dir, filename)

\* os.listdir(input_dir), line 102: the names of the entries, in no order
listdir(fsys, dir) ==
    { q[Len(q)] : q \in { q \in DOMAIN fsys :
                            Len(q) = Len(dir) + 1 /\ Parent(q) = dir } }

Put(fsys, path, node) ==
    [q \in DOMAIN fsys \cup {path} |-> IF q = path THEN node ELSE fsys[q]]

\* a makedirs that creates nothing
makedirs_none(fsys, path) == [ok |-> TRUE, fs |-> fsys, msg |-> ""]

\* os.makedirs(output_dir, exist_ok=True), line 99: missing parents first,
\* then the directory; an existing directory is accepted, an existing file
\* or a parent that is a file or is read-only raises
RECURSIVE makedirs(_, _)
makedirs(fsys, path) ==
    IF exists(fsys, path)
    THEN IF isdir(fsys, path)
         THEN [ok |-> TRUE, fs |-> fsys, msg |-> ""]
         ELSE [ok |-> FALSE, fs |-> fsys, msg |-> "FileExistsError"]
    ELSE LET up == makedirs(fsys, Parent(path))
         IN  IF ~up.ok
             THEN [ok |-> FALSE, fs |-> up.fs,
                   msg |-> IF up.msg = "FileExistsError"
                           THEN "NotADirectoryError" ELSE up.msg]
             ELSE IF ~up.fs[Parent(path)].writable
             THEN [ok |-> FALSE, fs |-> up.fs, msg |-> "PermissionError"]
             ELSE [ok |-> TRUE, fs |-> Put(up.fs, path, Dir(TRUE)), msg |-> ""]

\* pd.read_excel(input_path), line 59
read_excel(fsys, path) ==
    CASE ~exists(fsys, path) ->
            [ok |-> FALSE, df |-> <<>>, msg |-> "FileNotFoundError"]
      [] exists(fsys, path) /\ isdir(fsys, path) ->
            [ok |-> FALSE, df |-> <<>>, msg |-> "IsADirectoryError"]
      [] isfile(fsys, path) /\ fsys[path].content # "sheet" ->
            [ok |-> FALSE, df |-> <<>>, msg |-> "ValueError"]
      [] OTHER ->
            [ok |-> TRUE, df |-> fsys[path].sheet, msg |-> ""]

DigitText == <<"0", "1", "2", "3", "4", "5", "6", "7", "8", "9">>

\* a column label as the header row shows it
LabelText(n) == IF n.t = "int" THEN DigitText[n.i + 1] ELSE n.s

\* a cell as its csv field: a blank cell is the empty field
Field(cell) == IF cell.t = "nan" THEN <<>> ELSE cell.s

NRows(table) == IF Len(table) = 0 THEN 0 ELSE Len(table[1].values)

\* the text to_csv(index=True) writes: a leading index column
CsvWithIndex(table) ==
    [header |-> <<"">> \o [k \in 1..Len(table) |-> LabelText(table[k].name)],
     rows   |-> [r \in 1..NRows(table) |->
                    <<DigitText[r]>> \o
                    [k \in 1..Len(table) |-> Field(table[k].values[r])]]]

\* the text to_csv(index=False) writes: the header row, then the rows
CsvOf(table) ==
    [header |-> [k \in 1..Len(table) |-> LabelText(table[k].name)],
     rows   |-> [r \in 1..NRows(table) |->
                    [k \in 1..Len(table) |-> Field(table[k].values[r])]]]

\* df.to_csv(output_path, index=False, encoding='utf-8'), line 70
to_csv(fsys, path, table) ==
    CASE ~exists(fsys, Parent(path)) ->
            [ok |-> FALSE, fs |-> fsys, msg |-> "OSError"]
      [] isfile(fsys, Parent(path)) ->
            [ok |-> FALSE, fs |-> fsys, msg |-> "NotADirectoryError"]
      [] isdir(fsys, Parent(path)) /\ isdir(fsys, path) ->
            [ok |-> FALSE, fs |-> fsys, msg |-> "IsADirectoryError"]
      [] isdir(fsys, Parent(path)) /\ isfile(fsys, path)
           /\ ~fsys[path].writable ->
            [ok |-> FALSE, fs |-> fsys, msg |-> "PermissionError"]
      [] isdir(fsys, Parent(path)) /\ ~exists(fsys, path)
           /\ ~fsys[Parent(path)].writable ->
            [ok |-> FALSE, fs |-> fsys, msg |-> "PermissionError"]
      [] OTHER ->
            [ok |-> TRUE, fs |-> Put(fsys, path, CsvFile(CsvOf(table), TRUE)),
             msg |-> ""]

----------------------------------------------------------------------------
(* convert_file, lines 37-75 *)

ErrorLine(prefix, path, msg) == [prefix |-> prefix, path |-> path, msg |-> msg]

\* the handler that reports nothing
report_error_silent(se, input_path, msg) == se

\* line 74: print(f"Error converting {input_path}: {str(e)}", file=sys.stderr)
report_error(se, input_path, msg) ==
    Append(se, ErrorLine("Error converting", input_path, msg))

\* the except clause, lines 73-75
except_Exception(fsys, so, se, input_path, msg) ==
    [ok |-> FALSE, fs |-> fsys, stdout |-> so,
     stderr |-> report_error(se, input_path, msg)]

convert_file(fsys, so, se, input_path, output_path, email_only, verbose) ==
    LET so1 == IF verbose THEN Append(so, "Reading") ELSE so
        rd  == read_excel(fsys, input_path)
    IN  IF ~rd.ok
        THEN except_Exception(fsys, so1, se, input_path, rd.msg)
        ELSE
        LET col   == IF email_only THEN find_email_column(rd.df) ELSE None
            found == email_only /\ Truthy(col)
            df1   == IF found THEN SelectColumns(rd.df, col) ELSE rd.df
            so2   == CASE email_only /\ found /\ verbose ->
                            Append(so1, "Found email column")
                       [] email_only /\ ~found /\ verbose ->
                            Append(so1, "No email column found")
                       [] OTHER -> so1
            wr    == to_csv(fsys, output_path, df1)
        IN  IF ~wr.ok
            THEN except_Exception(fsys, so2, se, input_path, wr.msg)
            ELSE [ok |-> TRUE, fs |-> wr.fs, stdout |-> so2, stderr |-> se]

----------------------------------------------------------------------------
(* Cell texts and column labels the tables are drawn from *)

EmailText == <<"a", "@", "b", ".", "c", "o">>

\* one letter after the last dot: no match
PlainText == <<"a", "@", "b", ".", "c">>

Cells == {TextCell(EmailText), TextCell(PlainText), NaN}

\* header rows: labels are unique within a table; 0 is the falsy label
Headers ==
    { <<StrName("name"), StrName("contact"), IntName(0), StrName("id")>>,
      <<StrName("contact"), IntName(0), StrName("name"), StrName("id")>>,
      <<IntName(0), StrName("name"), StrName("contact"), StrName("id")>> }

\* the table with n columns and r rows built from a header row, the
\* is_string_dtype answers and the cells
MakeTable(n, header, flags, cells) ==
    [k \in 1..n |-> Column(header[k], flags[k], cells[k])]

----------------------------------------------------------------------------
(* SpecDetect: find_email_column applied to every table within the bounds *)

Unset == [t |-> "unset", s |-> "", i |-> 0]

Idle ==
    /\ fs = <<>> /\ args = <<>> /\ pc = "idle" /\ todo = {}
    /\ success_count = 0 /\ stdout = <<>> /\ stderr = <<>> /\ calls = <<>>
    /\ exit_code = -1 /\ escaped = ""

InitDetect ==
    /\ \E n \in 0..MaxCols, r \in 0..MaxRows :
       \E header \in Headers, flags \in [1..n -> BOOLEAN],
          cells \in [1..n -> [1..r -> Cells]] :
            df = MakeTable(n, header, flags, cells)
    /\ email_col = Unset
    /\ value = <<>> /\ matched = "unset"
    /\ Idle

Detect ==
    /\ email_col = Unset
    /\ email_col' = find_email_column(df)
    /\ UNCHANGED <<value, matched, df, fs, args, pc, todo, success_count,
                   stdout, stderr, calls, exit_code, escaped>>

SpecDetect == InitDetect /\ [][Detect]_vars

----------------------------------------------------------------------------
(* SpecPattern: the pattern searched in every text within the bounds *)

Alphabet == {"a", "1", "@", ".", "|"}

InitPattern ==
    /\ value \in UNION {[1..n -> Alphabet] : n \in 0..MaxLen}
    /\ matched = "unset"
    /\ df = <<>> /\ email_col = Unset
    /\ Idle

Search ==
    /\ matched = "unset"
    /\ matched' = IF email_pattern(value) THEN "match" ELSE "no match"
    /\ UNCHANGED <<value, df, email_col, fs, args, pc, todo, success_count,
                   stdout, stderr, calls, exit_code, escaped>>

SpecPattern == InitPattern /\ [][Search]_vars

----------------------------------------------------------------------------
(* Names and paths *)

\* SUPPORTED_FORMATS, line 17
SUPPORTED_FORMATS ==
    << <<".", "x", "l", "s", "x">>, <<".", "x", "l", "s">> >>

\* str.lower() on one character
LowerChar(c) ==
    CASE c = "A" -> "a" [] c = "B" -> "b" [] c = "C" -> "c" [] c = "D" -> "d"
      [] c = "E" -> "e" [] c = "F" -> "f" [] c = "G" -> "g" [] c = "H" -> "h"
      [] c = "I" -> "i" [] c = "J" -> "j" [] c = "K" -> "k" [] c = "L" -> "l"
      [] c = "M" -> "m" [] c = "N" -> "n" [] c = "O" -> "o" [] c = "P" -> "p"
      [] c = "Q" -> "q" [] c = "R" -> "r" [] c = "S" -> "s" [] c = "T" -> "t"
      [] c = "U" -> "u" [] c = "V" -> "v" [] c = "W" -> "w" [] c = "X" -> "x"
      [] c = "Y" -> "y" [] c = "Z" -> "z" [] OTHER -> c

lower(text) == [k \in 1..Len(text) |-> LowerChar(text[k])]

endswith(text, suffix) ==
    /\ Len(text) >= Len(suffix)
    /\ SubSeq(text, Len(text) - Len(suffix) + 1, Len(text)) = suffix

\* any(name.lower().endswith(ext) for ext in SUPPORTED_FORMATS), lines 103, 152
supported(text) ==
    \E e \in 1..Len(SUPPORTED_FORMATS) :
        endswith(lower(text), SUPPORTED_FORMATS[e])

\* os.path.splitext(filename)[0]: the name up to its last dot, unless only
\* dots come before that dot
splitext_root(text) ==
    LET dots == {k \in 1..Len(text) : text[k] = "."}
        last == CHOOSE k \in dots : \A m \in dots : m <= k
    IN  IF dots = {} THEN text
        ELSE IF \E k \in 1..(last - 1) : text[k] # "."
             THEN SubSeq(text, 1, last - 1)
             ELSE text

\* os.path.splitext(filename)[0] + '.csv', line 105
output_filename(filename) == splitext_root(filename) \o <<".", "c", "s", "v">>

a_xlsx == <<"a", ".", "x", "l", "s", "x">>

a_xls == <<"a", ".", "x", "l", "s">>

b_XLSX == <<"b", ".", "X", "L", "S", "X">>

n_txt == <<"n", ".", "t", "x", "t">>

\* a subdirectory with a spreadsheet name
s_xls == <<"s", ".", "x", "l", "s">>

\* a subdirectory
d_sub == <<"d">>

a_csv == <<"a", ".", "c", "s", "v">>

Root == <<>>

InDir == << <<"i", "n">> >>

OutParent == << <<"p">> >>

OutDir == << <<"p">>, <<"o", "u", "t">> >>

Args(input, output, email_only, verbose) ==
    [input |-> input, output |-> output, email_only |-> email_only,
     verbose |-> verbose]

Call(input, output, ok) == [input |-> input, output |-> output, ok |-> ok]

\* the file system holding the given entries besides the working directory
FsOf(entries) ==
    [q \in {Root} \cup {e[1] : e \in entries} |->
        IF q = Root THEN Dir(TRUE)
        ELSE (CHOOSE e \in entries : e[1] = q)[2]]

----------------------------------------------------------------------------
(* SpecConvert: one call of convert_file *)

ConvertCells == {TextCell(EmailText), NaN}

\* what is at the input path: a workbook, a file that is none, a directory,
\* or nothing
ConvertInputs(n, r) ==
    { {<<join(InDir, a_xlsx), SheetFile(MakeTable(n, header, flags, cells))>>} :
        header \in Headers, flags \in [1..n -> BOOLEAN],
        cells \in [1..n -> [1..r -> ConvertCells]] }

BrokenInputs ==
    { {<<join(InDir, a_xlsx), CorruptFile>>},
      {<<join(InDir, a_xlsx), Dir(TRUE)>>},
      {} }

\* what is at the output path and above it
ConvertOutputs ==
    { {<<OutParent, Dir(TRUE)>>, <<OutDir, Dir(TRUE)>>},
      {<<OutParent, Dir(TRUE)>>, <<OutDir, Dir(TRUE)>>,
       <<join(OutDir, a_csv), CsvFile(EmptyCsv, TRUE)>>},
      {<<OutParent, Dir(TRUE)>>, <<OutDir, Dir(TRUE)>>,
       <<join(OutDir, a_csv), CsvFile(EmptyCsv, FALSE)>>},
      {<<OutParent, Dir(TRUE)>>, <<OutDir, Dir(TRUE)>>,
       <<join(OutDir, a_csv), Dir(TRUE)>>},
      {<<OutParent, Dir(TRUE)>>, <<OutDir, Dir(FALSE)>>},
      {<<OutParent, Dir(TRUE)>>} }

InitConvert ==
    /\ \E n \in 0..MaxCols, r \in 0..MaxRows :
       \E inp \in ConvertInputs(n, r) \cup BrokenInputs,
          out \in ConvertOutputs :
            fs = FsOf({<<InDir, Dir(TRUE)>>} \cup inp \cup out)
    /\ \E email_only \in BOOLEAN, verbose \in BOOLEAN :
            args = Args(join(InDir, a_xlsx), join(OutDir, a_csv),
                        email_only, verbose)
    /\ pc = "convert"
    /\ todo = {} /\ success_count = 0
    /\ stdout = <<>> /\ stderr = <<>> /\ calls = <<>>
    /\ exit_code = -1 /\ escaped = ""
    /\ value = <<>> /\ matched = "unset" /\ df = <<>> /\ email_col = Unset

ConvertCall ==
    /\ pc = "convert"
    /\ LET res == convert_file(fs, stdout, stderr, args.input, args.output,
                               args.email_only, args.verbose)
       IN  /\ fs' = res.fs
           /\ stdout' = res.stdout
           /\ stderr' = res.stderr
           /\ calls' = Append(calls, Call(args.input, args.output, res.ok))
    /\ pc' = "returned"
    /\ UNCHANGED <<value, matched, df, email_col, args, todo, success_count,
                   exit_code, escaped>>

SpecConvert == InitConvert /\ [][ConvertCall]_vars

----------------------------------------------------------------------------
(* Spec: main, lines 115-173, with process_directory, lines 77-113 *)

\* a workbook with an email column
ContactsTable ==
    MakeTable(2, <<StrName("name"), StrName("contact")>>, <<TRUE, TRUE>>,
              << <<TextCell(PlainText), NaN>>,
                 <<NaN, TextCell(EmailText)>> >>)

\* a workbook without one
PlainTable ==
    MakeTable(2, <<StrName("id"), StrName("name")>>, <<FALSE, TRUE>>,
              << <<NaN>>, <<TextCell(PlainText)>> >>)

Entry(name, node) == <<join(InDir, name), node>>

\* a spreadsheet name in the input directory: absent, a workbook, or corrupt
Workbook(name, choice, table) ==
    CASE choice = "absent"  -> {}
      [] choice = "good"    -> {Entry(name, SheetFile(table))}
      [] choice = "corrupt" -> {Entry(name, CorruptFile)}

Maybe(present, entry) == IF present THEN {entry} ELSE {}

\* what is at the output directory and above it
MainOutputs ==
    { {},
      {<<OutParent, Dir(TRUE)>>},
      {<<OutParent, Dir(TRUE)>>, <<OutDir, Dir(TRUE)>>},
      {<<OutParent, Dir(TRUE)>>, <<OutDir, Dir(FALSE)>>},
      {<<OutParent, Dir(FALSE)>>},
      {<<OutParent, TextFile>>},
      {<<OutParent, Dir(TRUE)>>, <<OutDir, TextFile>>} }

\* the command lines: a directory to a directory, a file to a file
CommandLines ==
    { <<InDir, OutDir>>,
      <<join(InDir, a_xlsx), join(OutDir, a_csv)>>,
      <<join(InDir, n_txt), join(OutDir, a_csv)>> }

Init ==
    /\ \E ca, cb, cc \in {"absent", "good", "corrupt"},
          cn, cs, cd, indir \in BOOLEAN, out \in MainOutputs :
            fs = FsOf(IF ~indir THEN out
                      ELSE {<<InDir, Dir(TRUE)>>}
                           \cup Workbook(a_xlsx, ca, ContactsTable)
                           \cup Workbook(a_xls, cb, PlainTable)
                           \cup Workbook(b_XLSX, cc, ContactsTable)
                           \cup Maybe(cn, Entry(n_txt, TextFile))
                           \cup Maybe(cs, Entry(s_xls, Dir(TRUE)))
                           \cup Maybe(cd, Entry(d_sub, Dir(TRUE)))
                           \cup out)
    /\ \E cl \in CommandLines, email_only \in BOOLEAN, verbose \in BOOLEAN :
            args = Args(cl[1], cl[2], email_only, verbose)
    /\ pc = "main"
    /\ todo = {} /\ success_count = 0
    /\ stdout = <<>> /\ stderr = <<>> /\ calls = <<>>
    /\ exit_code = -1 /\ escaped = ""
    /\ value = <<>> /\ matched = "unset" /\ df = <<>> /\ email_col = Unset

\* lines 150-154: a file whose name has no supported extension
MainUnsupported ==
    /\ pc = "main"
    /\ isfile(fs, args.input)
    /\ ~supported(args.input[Len(args.input)])
    /\ stderr' = Append(stderr,
                        ErrorLine("Error: Unsupported file format", <<>>, ""))
    /\ exit_code' = 1
    /\ pc' = "exit"
    /\ UNCHANGED <<value, matched, df, email_col, fs, args, todo,
                   success_count, stdout, calls, escaped>>

\* lines 150-159: single file conversion
MainConvert ==
    /\ pc = "main"
    /\ isfile(fs, args.input)
    /\ supported(args.input[Len(args.input)])
    /\ LET res == convert_file(fs, stdout, stderr, args.input, args.output,
                               args.email_only, args.verbose)
       IN  /\ fs' = res.fs
           /\ stderr' = res.stderr
           /\ calls' = Append(calls, Call(args.input, args.output, res.ok))
           /\ stdout' = IF res.ok
                        THEN Append(res.stdout, "Successfully converted")
                        ELSE res.stdout
           /\ exit_code' = IF res.ok THEN 0 ELSE 1
    /\ pc' = "exit"
    /\ UNCHANGED <<value, matched, df, email_col, args, todo, success_count,
                   escaped>>

\* lines 160-167 and 95-97: process_directory on a path that does not exist
DirectoryNotFound ==
    /\ pc = "main"
    /\ ~isfile(fs, args.input)
    /\ ~exists(fs, args.input)
    /\ stderr' = Append(stderr,
                        ErrorLine("Error: Input directory not found",
                                  args.input, ""))
    /\ success_count' = 0
    /\ pc' = "pd_returned"
    /\ UNCHANGED <<value, matched, df, email_col, fs, args, todo, stdout,
                   calls, exit_code, escaped>>

\* lines 160-167 and 95-102: the output directory is made and the input
\* directory listed; an exception of makedirs is caught by nobody
DirectoryStart ==
    /\ pc = "main"
    /\ ~isfile(fs, args.input)
    /\ exists(fs, args.input)
    /\ LET md == makedirs(fs, args.output)
       IN  /\ fs' = md.fs
           /\ IF md.ok
              THEN /\ todo' = listdir(md.fs, args.input)
                   /\ pc' = "pd_loop"
                   /\ UNCHANGED <<exit_code, escaped>>
              ELSE /\ pc' = "exit"
                   /\ exit_code' = 1
                   /\ escaped' = md.msg
                   /\ UNCHANGED todo
    /\ success_count' = 0
    /\ UNCHANGED <<value, matched, df, email_col, args, stdout, stderr, calls>>

\* the counter that counts every attempt
count_every(count, ok) == count + 1

\* lines 108-109
count_success(count, ok) == IF ok THEN count + 1 ELSE count

\* lines 102-111: one iteration of the loop, for an entry the listing yields
ProcessEntry ==
    /\ pc = "pd_loop"
    /\ \E filename \in todo :
        /\ todo' = todo \ {filename}
        /\ IF supported(filename)
           THEN LET input_path  == join(args.input, filename)
                    output_path == join(args.output, output_filename(filename))
                    res == convert_file(fs, stdout, stderr, input_path,
                                        output_path, args.email_only,
                                        args.verbose)
                IN  /\ fs' = res.fs
                    /\ stderr' = res.stderr
                    /\ calls' = Append(calls,
                                       Call(input_path, output_path, res.ok))
                    /\ success_count' = count_success(success_count, res.ok)
                    /\ stdout' = IF res.ok /\ args.verbose
                                 THEN Append(res.stdout,
                                             "Successfully converted")
                                 ELSE res.stdout
           ELSE UNCHANGED <<fs, stderr, calls, success_count, stdout>>
    /\ UNCHANGED <<value, matched, df, email_col, args, pc, exit_code,
                   escaped>>

\* line 113: the listing is exhausted
DirectoryReturn ==
    /\ pc = "pd_loop"
    /\ todo = {}
    /\ pc' = "pd_returned"
    /\ UNCHANGED <<value, matched, df, email_col, fs, args, todo,
                   success_count, stdout, stderr, calls, exit_code, escaped>>

\* lines 169-173
MainAfterDirectory ==
    /\ pc = "pd_returned"
    /\ stdout' = IF args.verbose \/ success_count = 0
                 THEN Append(stdout, "Converted n file(s)")
                 ELSE stdout
    /\ exit_code' = IF success_count = 0 THEN 1 ELSE 0
    /\ pc' = "exit"
    /\ UNCHANGED <<value, matched, df, email_col, fs, args, todo,
                   success_count, stderr, calls, escaped>>

Next ==
    \/ MainUnsupported
    \/ MainConvert
    \/ DirectoryNotFound
    \/ DirectoryStart
    \/ ProcessEntry
    \/ DirectoryReturn
    \/ MainAfterDirectory

Spec == Init /\ [][Next]_vars

----------------------------------------------------------------------------
(* Properties *)

Labels(table) == [k \in 1..Len(table) |-> LabelText(table[k].name)]

\* a string-typed column with a non-blank value the pattern is found in
Qualifies(col) ==
    /\ col.string_dtype
    /\ \E r \in 1..Len(col.values) :
            col.values[r] # NaN /\ email_pattern(col.values[r].s)

\* C1: find_email_column returns the first column, in column order, that is
\* string-typed and holds a non-blank value the pattern is found in; it
\* returns None exactly when no column qualifies; a column that is not
\* string-typed is never returned.
C1_FirstQualifyingColumn ==
    email_col # Unset =>
        LET Q == {k \in 1..Len(df) : Qualifies(df[k])}
        IN  /\ Q = {} <=> email_col = None
            /\ Q # {} => \E k \in Q : /\ \A j \in Q : k <= j
                                      /\ email_col = df[k].name
            /\ \A k \in 1..Len(df) :
                    df[k].name = email_col => df[k].string_dtype

\* the second column is returned although the first, not string-typed, holds
\* an email address
C1_Witness ==
    /\ Len(df) >= 2
    /\ email_col = df[2].name
    /\ ~df[1].string_dtype
    /\ \E r \in 1..Len(df[1].values) : df[1].values[r] = TextCell(EmailText)

\* the call of SpecConvert has returned
Returned == pc = "returned" /\ Len(calls) = 1

\* the table read_excel loads for the call
Loaded == fs[args.input].sheet

Written == fs[args.output].csv

\* the text of the one-column table holding the column labelled name
ProjectionText(table, name) ==
    LET k == CHOOSE k \in 1..Len(table) : table[k].name = name
    IN  [header |-> <<LabelText(name)>>,
         rows   |-> [r \in 1..Len(table[k].values) |->
                        <<Field(table[k].values[r])>>]]

\* the text of the whole table
TableText(table) ==
    [header |-> Labels(table),
     rows   |-> [r \in 1..NRows(table) |->
                    [k \in 1..Len(table) |-> Field(table[k].values[r])]]]

\* C2: with email_only, when the detector finds a column, whatever its label,
\* the output is the projection onto that column, label and row order kept;
\* when it finds none, the output is the whole table and the call succeeds
\* unless loading or writing raised.
C2_ProjectionOrWholeTable ==
    (Returned /\ args.email_only /\ read_excel(fs, args.input).ok) =>
        LET col == find_email_column(Loaded)
        IN  /\ (col # None /\ calls[1].ok) =>
                    Written = ProjectionText(Loaded, col)
            /\ (col = None /\ calls[1].ok) => Written = TableText(Loaded)
            /\ (col = None /\ ~calls[1].ok) => Len(stderr) = 1

C4_FailureIsReported ==
    pc = "returned" =>
        /\ Len(calls) = 1
        /\ escaped = ""
        /\ ~read_excel(fs, args.input).ok => ~calls[1].ok
        /\ ~calls[1].ok =>
                /\ Len(stderr) = 1
                /\ stderr[1].prefix = "Error converting"
                /\ stderr[1].path = args.input
                /\ stderr[1].msg \in {"FileNotFoundError", "IsADirectoryError",
                                      "ValueError", "OSError",
                                      "NotADirectoryError", "PermissionError"}
                /\ ~read_excel(fs, args.input).ok =>
                        stderr[1].msg = read_excel(fs, args.input).msg
                /\ read_excel(fs, args.input).ok =>
                        stderr[1].msg = to_csv(fs, args.output, <<>>).msg
        /\ calls[1].ok =>
                /\ stderr = <<>>
                /\ isfile(fs, args.output)
                /\ fs[args.output].content = "csv"
                /\ Len(Written.rows) = NRows(Loaded)

\* the workbook loaded, the write was refused, the call returned false
C4_Witness ==
    /\ Returned /\ ~calls[1].ok
    /\ read_excel(fs, args.input).ok
    /\ Len(stderr) = 1 /\ stderr[1].msg = "PermissionError"

\* process_directory has listed the input directory and returned
BatchReturned == pc = "pd_returned" /\ isdir(fs, args.input)

CallsFor(path) == {k \in 1..Len(calls) : calls[k].input = path}

Succeeded == {k \in 1..Len(calls) : calls[k].ok}

\* C5: when process_directory returns from an existing directory, every entry
\* with a supported extension has been passed to convert_file exactly once,
\* whatever the order and the outcomes, the count is the number of calls that
\* returned true, and each failed call left one error line.
C5_BatchNeverHalts ==
    BatchReturned =>
        /\ \A name \in listdir(fs, args.input) :
                supported(name) =>
                    Cardinality(CallsFor(join(args.input, name))) = 1
        /\ success_count = Cardinality(Succeeded)
        /\ Len(stderr) = Len(calls) - Cardinality(Succeeded)

\* three spreadsheets, one of them corrupt: count 2 and one error line
C5_Witness ==
    /\ BatchReturned
    /\ Len(calls) = 3
    /\ \E k \in 1..3 : calls[k].input = join(InDir, b_XLSX) /\ ~calls[k].ok
    /\ success_count = 2
    /\ Len(stderr) = 1

\* C6: in process_directory, convert_file is never called for an entry that
\* is a subdirectory or whose name has no supported extension, and no error
\* line names such an entry.
C6_OthersAreSkipped ==
    args.input = InDir =>
        /\ \A k \in 1..Len(calls) :
                /\ supported(calls[k].input[Len(calls[k].input)])
                /\ ~isdir(fs, calls[k].input)
        /\ \A k \in 1..Len(stderr) :
                stderr[k].prefix = "Error converting" =>
                    ~isdir(fs, stderr[k].path)

\* C7: main exits with 1 exactly when the input is a file with an unsupported
\* extension (and then convert_file was not called), when the single file
\* conversion returned false, or when directory mode converted no file; it
\* exits with 0 otherwise, and no exception escapes main.
C7_ExitStatusByOutcome ==
    pc = "exit" =>
        /\ escaped = ""
        /\ exit_code \in {0, 1}
        /\ exit_code = 1 <=>
                \/ isfile(fs, args.input)
                     /\ ~supported(args.input[Len(args.input)])
                \/ isfile(fs, args.input)
                     /\ supported(args.input[Len(args.input)])
                     /\ ~calls[1].ok
                \/ ~isfile(fs, args.input) /\ success_count = 0
        /\ (isfile(fs, args.input)
              /\ ~supported(args.input[Len(args.input)])) => calls = <<>>
        /\ (~exists(fs, args.input)) =>
                \E k \in 1..Len(stderr) : stderr[k].path = args.input

\* every prefix of the path is a directory
DirWithParents(fsys, path) ==
    \A n \in 1..Len(path) : isdir(fsys, SubSeq(path, 1, n))

\* C8: when input_dir does not exist, process_directory reports one error
\* line, returns 0, calls convert_file not at all and leaves the file system
\* as it was; when input_dir exists, output_dir and its parents exist before
\* every convert_file call of the loop.
C8_MissingInputAndOutputDir ==
    [][ /\ (pc = "main" /\ ~exists(fs, args.input)) =>
                /\ pc' = "pd_returned"
                /\ fs' = fs
                /\ calls' = calls
                /\ success_count' = 0
                /\ Len(stderr') = Len(stderr) + 1
                /\ stderr'[Len(stderr')].path = args.input
        /\ (pc = "pd_loop" /\ calls' # calls) =>
                DirWithParents(fs, args.output) ]_vars

\* the missing input directory: reported, nothing called, nothing created
C8_Witness ==
    /\ pc = "pd_returned"
    /\ ~exists(fs, args.input) /\ ~exists(fs, args.output)
    /\ ~exists(fs, OutParent)
    /\ Len(stderr) = 1 /\ stderr[1].path = args.input
    /\ calls = <<>> /\ success_count = 0

\* C9: the pattern is found in a text exactly when the text has a
\* word-bounded substring local@domain.tld whose tld is two or more letters
\* and nothing else.
C9_TldIsLettersOnly ==
    matched # "unset" =>
        (matched = "match" <=> PatternSearch(value, TldLettersOnly))

\* C10: when process_directory returns n, the successful conversions wrote n
\* distinct output files: no output of the run was overwritten by a later
\* conversion of the run.
C10_DistinctOutputs ==
    BatchReturned =>
        Cardinality({calls[k].output : k \in Succeeded}) = success_count

====
